---- MODULE Spec2Model ----
(***************************************************************************)
(* A model of tools/build_packs_manifest.py: the manifest builder that     *)
(* lists an assets directory, hashes every eligible pack and writes        *)
(* packs.json.                                                             *)
(*                                                                         *)
(* File names are sequences of one-character strings, so that              *)
(* Path.suffix, str.lower and the ordering used by sorted() can be         *)
(* computed as pathlib computes them.  A file's content is the sequence of *)
(* chunks that successive f.read(8192) calls return; a chunk is a sequence *)
(* of text pieces whose concatenation is the chunk's bytes.                *)
(***************************************************************************)
EXTENDS Integers, Sequences, FiniteSets, TLC

(***************************************************************************)
(* Characters                                                              *)
(***************************************************************************)
UpperCase == <<"A","B","C","D","E","F","G","H","I","J","K","L","M",
               "N","O","P","Q","R","S","T","U","V","W","X","Y","Z">>

LowerCase == <<"a","b","c","d","e","f","g","h","i","j","k","l","m",
               "n","o","p","q","r","s","t","u","v","w","x","y","z">>

IndexIn(seq, c) ==
    IF \E i \in 1..Len(seq) : seq[i] = c
    THEN CHOOSE i \in 1..Len(seq) : seq[i] = c
    ELSE 0

\* The Unicode code point of a character of the model's alphabet.
Code(c) ==
    IF IndexIn(UpperCase, c) > 0 THEN 64 + IndexIn(UpperCase, c)
    ELSE IF IndexIn(LowerCase, c) > 0 THEN 96 + IndexIn(LowerCase, c)
    ELSE IF c = "." THEN 46
    ELSE IF c = "_" THEN 95
    ELSE 45

\* str.lower() on one character.
LowerChar(c) ==
    IF IndexIn(UpperCase, c) > 0 THEN LowerCase[IndexIn(UpperCase, c)] ELSE c

\* str.lower()
Lower(s) == [i \in 1..Len(s) |-> LowerChar(s[i])]

\* Python's str "<": lexicographic by code point, a proper prefix first.
RECURSIVE StrLess(_, _)
StrLess(a, b) ==
    IF b = <<>> THEN FALSE
    ELSE IF a = <<>> THEN TRUE
    ELSE IF Code(Head(a)) # Code(Head(b)) THEN Code(Head(a)) < Code(Head(b))
    ELSE StrLess(Tail(a), Tail(b))

\* str.rfind("."), as a 1-based index; 0 when there is no dot.
RFindDot(name) ==
    IF \E i \in 1..Len(name) : name[i] = "."
    THEN CHOOSE i \in 1..Len(name) :
            name[i] = "." /\ \A j \in (i+1)..Len(name) : name[j] # "."
    ELSE 0

\* PurePath.suffix: the part from the last dot, unless that dot starts or
\* ends the name.
Suffix(name) ==
    LET i == RFindDot(name)
    IN  IF 1 < i /\ i < Len(name) THEN SubSeq(name, i, Len(name)) ELSE <<>>

(***************************************************************************)
(* File names of the model                                                 *)
(***************************************************************************)
DOT_JSON   == <<".","j","s","o","n">>
PACKS_JSON == <<"p","a","c","k","s",".","j","s","o","n">>
A_JSON     == <<"a",".","j","s","o","n">>
B_JSON_UP  == <<"B",".","J","S","O","N">>
M_JSON     == <<"m",".","j","s","o","n">>
NOTES_TXT  == <<"n","o","t","e","s",".","t","x","t">>
SUB_JSON   == <<"s","u","b",".","j","s","o","n">>
Z_BAK      == <<"z",".","b","a","k">>

Names == {A_JSON, B_JSON_UP, M_JSON, NOTES_TXT, PACKS_JSON, SUB_JSON}


(***************************************************************************)
(* Bounds of the model                                                     *)
(***************************************************************************)
\* Directory entries present when the first build starts.
MaxEntries == 3
\* Successive runs of main over the same filesystem.
MaxRuns == 2
\* Removals or renames by an external actor during one behaviour.
MaxExternal == 1

(***************************************************************************)
(* File contents and directory entries                                     *)
(***************************************************************************)
EmptyContent == <<>>
SmallContent == << <<"{}">> >>
\* A file longer than one read buffer: two successive reads return data.
LongContent  == << <<"{\"quotes\":[">>, <<"]}">> >>
StaleContent == << <<"stale">> >>

FileEntry(c) == [kind |-> "file", content |-> c]
DirEntry     == [kind |-> "dir", content |-> EmptyContent]

\* What each name of the model may be when it is present.
EntryChoices(n) ==
    IF n = A_JSON THEN {FileEntry(SmallContent), FileEntry(LongContent)}
    ELSE IF n = M_JSON THEN {FileEntry(SmallContent), FileEntry(EmptyContent)}
    ELSE IF n = PACKS_JSON THEN {FileEntry(StaleContent)}
    ELSE IF n = SUB_JSON THEN {DirEntry}
    ELSE {FileEntry(SmallContent)}

Directories ==
    UNION { {d \in [S -> UNION {EntryChoices(n) : n \in S}] :
                \A n \in S : d[n] \in EntryChoices(n)} :
            S \in {T \in SUBSET Names : Cardinality(T) <= MaxEntries} }

NoDirectory == [n \in {} |-> DirEntry]

Remove(d, n) == [m \in DOMAIN d \ {n} |-> d[m]]
Put(d, n, e) == [m \in DOMAIN d \cup {n} |-> IF m = n THEN e ELSE d[m]]

\* The command lines of the model: --output and the --exclude list
\* (--assets-dir is the directory the model calls dir).  The output path is
\* a name inside the assets directory or packs.json in the directory "out".
ArgChoices ==
    [outLoc : {"assets"}, outName : {PACKS_JSON, M_JSON},
     exclude : {{}, {A_JSON, NOTES_TXT}}]
    \cup
    [outLoc : {"out"}, outName : {PACKS_JSON},
     exclude : {{}, {A_JSON, NOTES_TXT}}]

(***************************************************************************)
(* sorted(assets_dir.iterdir())                                            *)
(***************************************************************************)
\* Every order in which the filesystem may enumerate the entries S.
RECURSIVE Enumerations(_)
Enumerations(S) ==
    IF S = {} THEN {<<>>}
    ELSE UNION { {<<x>> \o e : e \in Enumerations(S \ {x})} : x \in S }

\* PurePath.__lt__ for two entries of one directory: pathlib compares the
\* case-folded parts, which are the parts themselves on the POSIX flavour
\* and the lower-cased parts on the Windows flavour.
PathLess(fl, a, b) ==
    IF fl = "windows" THEN StrLess(Lower(a), Lower(b)) ELSE StrLess(a, b)

RECURSIVE InsertPath(_, _, _)
InsertPath(fl, s, x) ==
    IF s = <<>> THEN <<x>>
    ELSE IF PathLess(fl, x, Head(s)) THEN <<x>> \o s
    ELSE <<Head(s)>> \o InsertPath(fl, Tail(s), x)

\* The listing used as the filesystem enumerated it, without sorted().
SortedPaths_Unsorted(fl, e) == e

\* sorted(): a stable sort of the enumeration.
RECURSIVE SortedPaths(_, _)
SortedPaths(fl, e) ==
    IF e = <<>> THEN <<>>
    ELSE InsertPath(fl, SortedPaths(fl, SubSeq(e, 1, Len(e) - 1)), e[Len(e)])

(***************************************************************************)
(* hashlib.sha256 and json.dump                                            *)
(***************************************************************************)
RECURSIVE JoinStr(_)
JoinStr(pieces) ==
    IF pieces = <<>> THEN "" ELSE Head(pieces) \o JoinStr(Tail(pieces))

\* h.update(chunk): the digest object absorbs the chunk's bytes.
HashUpdate(h, chunk) == h \o chunk

\* h.hexdigest(): one digest per byte string, however it was cut in chunks.
HexDigest(h) == "sha256<" \o JoinStr(h) \o ">"

JsonChar(c) ==
    IF c = "\"" THEN "\\\"" ELSE IF c = "\\" THEN "\\\\" ELSE c

\* The JSON string literal of a file name (ensure_ascii: the alphabet of the
\* model is ASCII, where only the quote and the backslash are escaped).
JsonString(s) == "\"" \o JoinStr([i \in 1..Len(s) |-> JsonChar(s[i])]) \o "\""

JsonRecord(r, last) ==
    << "    {\n",
       "      \"fileName\": " \o JsonString(r.fileName) \o ",\n",
       "      \"sha256\": \"" \o r.sha256 \o "\"\n",
       IF last THEN "    }\n" ELSE "    },\n" >>

RECURSIVE JsonRecords(_)
JsonRecords(ps) ==
    IF ps = <<>> THEN <<>>
    ELSE JsonRecord(Head(ps), Len(ps) = 1) \o JsonRecords(Tail(ps))

\* json.dump({"packs": packs}, f, indent=2, ensure_ascii=True): the text
\* written, one piece per line; the last line has no newline.
JsonDump(ps) ==
    IF ps = <<>> THEN << "{\n", "  \"packs\": []\n", "}" >>
    ELSE << "{\n", "  \"packs\": [\n" >> \o JsonRecords(ps) \o << "  ]\n", "}" >>

\* The bytes of a file as one sequence of pieces.
RECURSIVE Flatten(_)
Flatten(content) ==
    IF content = <<>> THEN <<>> ELSE Head(content) \o Flatten(Tail(content))

\* The content of a file whose text was written piece by piece: a manifest
\* is shorter than one read buffer, so it is read back as a single chunk.
Written(pieces) == IF pieces = <<>> THEN <<>> ELSE <<pieces>>

(***************************************************************************)
(* State                                                                   *)
(***************************************************************************)
VARIABLES
    flavour,      \* the pathlib flavour of the platform: "posix" or "windows"
    assetsKind,   \* what --assets-dir names: "dir", "file" or "missing"
    dir,          \* the assets directory: name -> entry
    outDir,       \* whether the directory "out" (outside the assets) exists
    outFile,      \* the file out/<outName>: [exists, content]
    args,         \* the command line: [outLoc, outName, exclude]
    pc,           \* the statement main is at
    excludes,     \* main's excludes
    listing,      \* the list sorted(assets_dir.iterdir()) the generator walks
    idx,          \* the generator's position in listing
    packs,        \* build_manifest's packs
    fds,          \* the open asset files: descriptor -> [name, content, pos]
    h,            \* the digest object of the running sha256_hex call
    outBuf,       \* the text written to the open output file
    exit,         \* <<>> while main runs, then <<exit status>>
    error,        \* the failure main ended with, "" for none
    reported,     \* the count main printed, <<>> for none
    run,          \* history: the number of this run of main
    ext,          \* history: external removals and renames so far
    before,       \* history: the filesystem when this run started
    listed,       \* history: the directory as iterdir() saw it
    opened,       \* history: the asset files opened by this run, in order
    raced,        \* history: listed eligible files taken away before being hashed
    wrote,        \* history: this run opened the output file for writing
    prev          \* history: the last successful run's input and manifest

fsVars   == <<assetsKind, dir, outDir, outFile>>
runVars  == <<pc, excludes, listing, idx, packs, fds, h, outBuf, exit, error, reported>>
histVars == <<run, ext, before, listed, opened, raced, wrote, prev>>
vars     == <<flavour, args, fsVars, runVars, histVars>>

NoFile == [exists |-> FALSE, content |-> EmptyContent]

\* The file at the output path, as [exists, content].
OutputAt(d, o) ==
    IF args.outLoc = "assets"
    THEN IF args.outName \in DOMAIN d /\ d[args.outName].kind = "file"
         THEN [exists |-> TRUE, content |-> d[args.outName].content]
         ELSE NoFile
    ELSE o

Output == OutputAt(dir, outFile)

Snapshot == [dir |-> dir, outDir |-> outDir, output |-> Output]

NoPrev == [valid |-> FALSE, dir |-> NoDirectory, excludes |-> {}, doc |-> EmptyContent]

Init ==
    /\ flavour \in {"posix", "windows"}
    /\ \/ assetsKind = "dir" /\ dir \in Directories
       \/ assetsKind \in {"file", "missing"} /\ dir = NoDirectory
    /\ args \in ArgChoices
    /\ outDir \in (IF args.outLoc = "out" THEN BOOLEAN ELSE {FALSE})
    /\ outFile \in {NoFile} \cup
                   (IF outDir THEN {[exists |-> TRUE, content |-> StaleContent]} ELSE {})
    /\ pc = "main"
    /\ excludes = {}
    /\ listing = <<>>
    /\ idx = 0
    /\ packs = <<>>
    /\ fds = <<>>
    /\ h = <<>>
    /\ outBuf = <<>>
    /\ exit = <<>>
    /\ error = ""
    /\ reported = <<>>
    /\ run = 1
    /\ ext = 0
    /\ before = Snapshot
    /\ listed = NoDirectory
    /\ opened = <<>>
    /\ raced = {}
    /\ wrote = FALSE
    /\ prev = NoPrev

(***************************************************************************)
(* main, build_manifest, iter_json_files and sha256_hex                    *)
(***************************************************************************)
\* raise SystemExit(message) or an uncaught exception: exit status 1.
Fail(e) ==
    /\ pc' = "done"
    /\ exit' = <<1>>
    /\ error' = e

\* main, lines 61-64.
MainExcludes(a) == {PACKS_JSON} \cup a.exclude

ParseArgs ==
    /\ pc = "main"
    /\ excludes' = MainExcludes(args)
    /\ pc' = "checkdir"
    /\ UNCHANGED <<flavour, args, fsVars, histVars,
                   listing, idx, packs, fds, h, outBuf, exit, error, reported>>

\* main, lines 66-67.
CheckDir ==
    /\ pc = "checkdir"
    /\ IF assetsKind # "dir"
       THEN Fail("DirectoryNotFound")
       ELSE pc' = "list" /\ UNCHANGED <<exit, error>>
    /\ UNCHANGED <<flavour, args, fsVars, histVars,
                   excludes, listing, idx, packs, fds, h, outBuf, reported>>

\* iter_json_files, line 30: the generator's first step lists and sorts.
ListDir ==
    /\ pc = "list"
    /\ \E e \in Enumerations(DOMAIN dir) : listing' = SortedPaths(flavour, e)
    /\ idx' = 1
    /\ listed' = dir
    /\ pc' = "iter"
    /\ UNCHANGED <<flavour, args, fsVars, run, ext, before, opened, raced, wrote, prev,
                   excludes, packs, fds, h, outBuf, exit, error, reported>>

\* path.is_file() on the filesystem as it is now.
IsFile(d, n) == n \in DOMAIN d /\ d[n].kind = "file"

\* The filter without its "path.name in excludes" test.
Eligible_IgnoresExcludes(d, n, ex) ==
    /\ IsFile(d, n)
    /\ Lower(Suffix(n)) = DOT_JSON

\* iter_json_files, lines 31-36: whether the generator yields this path.
Eligible(d, n, ex) ==
    /\ IsFile(d, n)
    /\ Lower(Suffix(n)) = DOT_JSON
    /\ n \notin ex

\* iter_json_files, lines 31-36: an entry that is passed over.
IterSkip ==
    /\ pc = "iter"
    /\ idx <= Len(listing)
    /\ ~Eligible(dir, listing[idx], excludes)
    /\ idx' = idx + 1
    /\ UNCHANGED <<flavour, args, fsVars, histVars,
                   pc, excludes, listing, packs, fds, h, outBuf, exit, error, reported>>

\* iter_json_files, line 37, into build_manifest, line 45, and sha256_hex,
\* line 22.
IterYield ==
    /\ pc = "iter"
    /\ idx <= Len(listing)
    /\ Eligible(dir, listing[idx], excludes)
    /\ h' = <<>>
    /\ pc' = "open"
    /\ UNCHANGED <<flavour, args, fsVars, histVars,
                   excludes, listing, idx, packs, fds, outBuf, exit, error, reported>>

\* The generator is exhausted: build_manifest returns packs (line 47).
IterStop ==
    /\ pc = "iter"
    /\ idx > Len(listing)
    /\ pc' = "checkempty"
    /\ UNCHANGED <<flavour, args, fsVars, histVars,
                   excludes, listing, idx, packs, fds, h, outBuf, exit, error, reported>>

\* A descriptor that is never released.
Closed_Leaks(f, fd) == f

\* The descriptors left when descriptor fd is closed.
Closed(f, fd) == [k \in DOMAIN f \ {fd} |-> f[k]]

\* sha256_hex, line 23: path.open("rb").
Open ==
    /\ pc = "open"
    /\ IF IsFile(dir, listing[idx])
       THEN /\ fds' = (idx :> [name |-> listing[idx],
                               content |-> dir[listing[idx]].content,
                               pos |-> 0]) @@ fds
            /\ opened' = Append(opened, listing[idx])
            /\ pc' = "read"
            /\ UNCHANGED <<exit, error>>
       ELSE /\ Fail("UnreadableFile")
            /\ UNCHANGED <<fds, opened>>
    /\ UNCHANGED <<flavour, args, fsVars, run, ext, before, listed, raced, wrote, prev,
                   excludes, listing, idx, packs, h, outBuf, reported>>

\* sha256_hex, lines 24-25: f.read(8192) returns data, h.update(chunk).
ReadChunk ==
    /\ pc = "read"
    /\ fds[idx].pos < Len(fds[idx].content)
    /\ h' = HashUpdate(h, fds[idx].content[fds[idx].pos + 1])
    /\ fds' = [fds EXCEPT ![idx].pos = @ + 1]
    /\ UNCHANGED <<flavour, args, fsVars, histVars,
                   pc, excludes, listing, idx, packs, outBuf, exit, error, reported>>

\* sha256_hex, line 24: f.read(8192) returns b"", the loop ends.
ReadEof ==
    /\ pc = "read"
    /\ fds[idx].pos = Len(fds[idx].content)
    /\ pc' = "close"
    /\ UNCHANGED <<flavour, args, fsVars, histVars,
                   excludes, listing, idx, packs, fds, h, outBuf, exit, error, reported>>

\* sha256_hex, line 24: f.read raises OSError; the with statement closes
\* the file and the exception ends main.
ReadFail ==
    /\ pc = "read"
    /\ fds' = Closed(fds, idx)
    /\ Fail("UnreadableFile")
    /\ UNCHANGED <<flavour, args, fsVars, histVars,
                   excludes, listing, idx, packs, h, outBuf, reported>>

\* sha256_hex, lines 23-26, and build_manifest, lines 43-46: the with
\* statement closes the file, the record is appended, the loop goes on.
CloseAndAppend ==
    /\ pc = "close"
    /\ fds' = Closed(fds, idx)
    /\ packs' = Append(packs, [fileName |-> fds[idx].name, sha256 |-> HexDigest(h)])
    /\ idx' = idx + 1
    /\ pc' = "iter"
    /\ UNCHANGED <<flavour, args, fsVars, histVars,
                   excludes, listing, h, outBuf, exit, error, reported>>

\* main without its emptiness test.
NoPacks_Never(ps) == FALSE

\* main, line 70: "if not packs".
NoPacks(ps) == ps = <<>>

\* The filesystem with the output file holding the pieces written so far.
WriteOutput(pieces) ==
    IF args.outLoc = "assets"
    THEN /\ dir' = Put(dir, args.outName, FileEntry(Written(pieces)))
         /\ UNCHANGED outFile
    ELSE /\ outFile' = [exists |-> TRUE, content |-> Written(pieces)]
         /\ UNCHANGED dir

\* The output file opened for writing before the emptiness test.
CheckEmpty_TruncatesFirst ==
    /\ pc = "checkempty"
    /\ WriteOutput(<<>>)
    /\ IF NoPacks(packs)
       THEN Fail("EmptyAssetSet")
       ELSE pc' = "mkdir" /\ UNCHANGED <<exit, error>>
    /\ UNCHANGED <<flavour, args, assetsKind, outDir, histVars,
                   excludes, listing, idx, packs, fds, h, outBuf, reported>>

\* main, lines 70-71.
CheckEmpty ==
    /\ pc = "checkempty"
    /\ IF NoPacks(packs)
       THEN Fail("EmptyAssetSet")
       ELSE pc' = "mkdir" /\ UNCHANGED <<exit, error>>
    /\ UNCHANGED <<flavour, args, fsVars, histVars,
                   excludes, listing, idx, packs, fds, h, outBuf, reported>>

\* main, line 74: output_path.parent.mkdir(parents=True, exist_ok=True).
Mkdir ==
    /\ pc = "mkdir"
    /\ outDir' = (outDir \/ args.outLoc = "out")
    /\ pc' = "openout"
    /\ UNCHANGED <<flavour, args, assetsKind, dir, outFile, histVars,
                   excludes, listing, idx, packs, fds, h, outBuf, exit, error, reported>>

\* main, line 75: open("w") creates or truncates the output file.
OpenOut ==
    /\ pc = "openout"
    /\ outBuf' = <<>>
    /\ WriteOutput(<<>>)
    /\ wrote' = TRUE
    /\ pc' = "dump"
    /\ UNCHANGED <<flavour, args, assetsKind, outDir,
                   run, ext, before, listed, opened, raced, prev,
                   excludes, listing, idx, packs, fds, h, exit, error, reported>>

\* main, line 76: json.dump(manifest, f, indent=2, ensure_ascii=True).
Dump ==
    /\ pc = "dump"
    /\ outBuf' = outBuf \o JsonDump(packs)
    /\ WriteOutput(outBuf')
    /\ pc' = "newline"
    /\ UNCHANGED <<flavour, args, assetsKind, outDir, histVars,
                   excludes, listing, idx, packs, fds, h, exit, error, reported>>

\* main, line 77: f.write("\n"), and the with statement closes the file.
WriteNewline ==
    /\ pc = "newline"
    /\ outBuf' = outBuf \o <<"\n">>
    /\ WriteOutput(outBuf')
    /\ pc' = "report"
    /\ UNCHANGED <<flavour, args, assetsKind, outDir, histVars,
                   excludes, listing, idx, packs, fds, h, exit, error, reported>>

\* The count of directory entries printed instead of the count of records.
ReportedCount_Listing(ps) == Len(listing)

\* main, line 79: the count printed.
ReportedCount(ps) == Len(ps)

\* main, lines 79-80.
Report ==
    /\ pc = "report"
    /\ reported' = <<ReportedCount(packs)>>
    /\ exit' = <<0>>
    /\ pc' = "done"
    /\ UNCHANGED <<flavour, args, fsVars, histVars,
                   excludes, listing, idx, packs, fds, h, outBuf, error>>

\* After a build that succeeded, the tool is run again with the same
\* command line on the filesystem that build left.
NextRun ==
    /\ pc = "done"
    /\ exit = <<0>>
    /\ run < MaxRuns
    /\ run' = run + 1
    /\ prev' = [valid |-> TRUE, dir |-> listed, excludes |-> excludes,
                doc |-> Output.content]
    /\ before' = Snapshot
    /\ listed' = NoDirectory
    /\ opened' = <<>>
    /\ raced' = {}
    /\ wrote' = FALSE
    /\ pc' = "main"
    /\ excludes' = {}
    /\ listing' = <<>>
    /\ idx' = 0
    /\ packs' = <<>>
    /\ fds' = <<>>
    /\ h' = <<>>
    /\ outBuf' = <<>>
    /\ exit' = <<>>
    /\ error' = ""
    /\ reported' = <<>>
    /\ UNCHANGED <<flavour, args, fsVars, ext>>

Build ==
    \/ ParseArgs \/ CheckDir \/ ListDir
    \/ IterSkip \/ IterYield \/ IterStop
    \/ Open \/ ReadChunk \/ ReadEof \/ ReadFail \/ CloseAndAppend
    \/ CheckEmpty \/ Mkdir \/ OpenOut \/ Dump \/ WriteNewline \/ Report

Next == Build \/ NextRun

Spec == Init /\ [][Next]_vars

(***************************************************************************)
(* The external actor of the race between discovery and hashing            *)
(***************************************************************************)
\* The build is between taking the listing and finishing the hashing.
Hashing == pc \in {"iter", "open", "read", "close"}

\* A file that is open cannot be removed or renamed on Windows; on POSIX
\* the open descriptor keeps the content it was opened on.
Removable(n) ==
    /\ n \in DOMAIN dir
    /\ flavour = "windows" => \A fd \in DOMAIN fds : fds[fd].name # n

\* The hashing of n is complete: every byte was read.
Hashed(n) ==
    \/ \E i \in 1..Len(packs) : packs[i].fileName = n
    \/ pc = "close" /\ listing[idx] = n

\* The listed eligible files among ns that have not been hashed yet.
Unhashed(ns) ==
    {n \in ns : n \in DOMAIN listed /\ Eligible(listed, n, excludes) /\ ~Hashed(n)}

ExtRemove ==
    /\ Hashing
    /\ ext < MaxExternal
    /\ \E n \in DOMAIN dir :
          /\ Removable(n)
          /\ dir' = Remove(dir, n)
          /\ raced' = raced \cup Unhashed({n})
    /\ ext' = ext + 1
    /\ UNCHANGED <<flavour, args, assetsKind, outDir, outFile, runVars,
                   run, before, listed, opened, wrote, prev>>

ExtRename ==
    /\ Hashing
    /\ ext < MaxExternal
    /\ Z_BAK \notin DOMAIN dir
    /\ \E n \in DOMAIN dir :
          /\ Removable(n)
          /\ dir' = Put(Remove(dir, n), Z_BAK, dir[n])
          /\ raced' = raced \cup Unhashed({n})
    /\ ext' = ext + 1
    /\ UNCHANGED <<flavour, args, assetsKind, outDir, outFile, runVars,
                   run, before, listed, opened, wrote, prev>>

NextRace == Next \/ ExtRemove \/ ExtRename

\* The race is examined for the default command line: no --exclude, and
\* the output packs.json inside the assets directory.
DefaultArgs == [outLoc |-> "assets", outName |-> PACKS_JSON, exclude |-> {}]

RaceInit == Init /\ args = DefaultArgs

RaceSpec == RaceInit /\ [][NextRace]_vars

(***************************************************************************)
(* Properties                                                              *)
(***************************************************************************)
PackNames == {packs[i].fileName : i \in 1..Len(packs)}

\* build_manifest has returned its list to main.
Returned ==
    \/ pc \in {"checkempty", "mkdir", "openout", "dump", "newline", "report"}
    \/ pc = "done" /\ error \in {"", "EmptyAssetSet"}

\* The name ends in ".json", in any letter case, after a non-empty stem.
EndsWithJson(n) ==
    /\ Len(n) > Len(DOT_JSON)
    /\ Lower(SubSeq(n, Len(n) - Len(DOT_JSON) + 1, Len(n))) = DOT_JSON

\* The files of the listed directory that the specification calls eligible.
EligibleListed ==
    {n \in DOMAIN listed :
        listed[n].kind = "file" /\ EndsWithJson(n) /\ n \notin excludes}

\* The number of records in a manifest file.
RecordsIn(content) ==
    Cardinality({i \in 1..Len(Flatten(content)) : Flatten(content)[i] = "    {\n"})

\* C1: a file of the assets directory whose name is the output path's file
\* name is never a record of the manifest, whatever the output path and the
\* exclusion list, on a first run and on later runs.
C1_SelfExclusion ==
    \A i \in 1..Len(packs) : packs[i].fileName # args.outName

\* The full statement of C2: when a listed eligible file is removed or
\* renamed after the listing and before it has been hashed, the build fails
\* with UnreadableFile and opens no manifest for writing.
RaceAbortsBuild ==
    (pc = "done" /\ raced # {}) =>
        /\ exit = <<1>>
        /\ error = "UnreadableFile"
        /\ ~wrote

\* C2: when a listed eligible file is removed or renamed after the listing
\* and before it has been hashed, the build never completes successfully
\* with a manifest that omits that file's record (the closing clause of the
\* claim, which RaceAbortsBuild implies).
C2_NoSilentOmission ==
    (pc = "done" /\ raced # {}) => ~(exit = <<0>> /\ wrote /\ raced \ PackNames # {})

C4_NonEmptyGuarantee ==
    (pc = "done" /\ assetsKind = "dir" /\ EligibleListed = {}) =>
        /\ exit = <<1>>
        /\ error = "EmptyAssetSet"
        /\ Output = before.output
        /\ outDir = before.outDir
        /\ dir = before.dir

C4_Witness ==
    /\ pc = "done" /\ error = "EmptyAssetSet"
    /\ NOTES_TXT \in DOMAIN listed
    /\ args.outLoc = "out" /\ ~outDir

\* C5: the records of every list build_manifest returns are in strictly
\* ascending code point order of fileName, whatever the enumeration order.
C5_CodepointOrder ==
    \A i, j \in 1..Len(packs) :
        i < j => StrLess(packs[i].fileName, packs[j].fileName)

C7_AssetsReadOnly ==
    pc = "done" =>
        \A n \in PackNames :
            /\ n \in DOMAIN dir
            /\ n \in DOMAIN before.dir
            /\ dir[n] = before.dir[n]

\* C8: main returns 0 only if at least one record was written, the count it
\* reports is the number of records in the manifest file it wrote, and a
\* missing assets directory, an unreadable asset or an empty asset set ends
\* the run with a non-zero exit status.
C8_ExitStatus ==
    pc = "done" =>
        /\ exit = <<0>> => /\ Output.exists
                           /\ RecordsIn(Output.content) >= 1
                           /\ reported = <<RecordsIn(Output.content)>>
        /\ assetsKind # "dir" => exit = <<1>>
        /\ error = "UnreadableFile" => exit = <<1>>
        /\ (assetsKind = "dir" /\ EligibleListed = {}) => exit = <<1>>
        /\ exit = <<1>> => reported = <<>>

C8_Witness ==
    /\ pc = "done" /\ exit = <<0>>
    /\ reported = <<2>>
    /\ RecordsIn(Output.content) = 2

\* C9: the output file is opened for writing only after the directory check
\* passed, every discovered file was hashed and the record list is complete;
\* a run that fails leaves the content at the output path as it was.
C9_WriteLast ==
    /\ (pc \in {"dump", "newline", "report"} \/ Output # before.output) =>
          /\ assetsKind = "dir"
          /\ pc \in {"dump", "newline", "report", "done"}
          /\ error = ""
          /\ idx > Len(listing)
          /\ fds = <<>>
          /\ PackNames = EligibleListed
          /\ Len(packs) = Len(opened)
          /\ \A i \in 1..Len(packs) : packs[i].fileName = opened[i]
    /\ (pc = "done" /\ exit = <<1>>) => Output = before.output

C9_Witness ==
    /\ pc = "done" /\ error = "UnreadableFile"
    /\ Len(packs) >= 1
    /\ before.output.exists
    /\ Output = before.output

\* The position of a name in the listing.
ListingIndex(n) == CHOOSE k \in 1..Len(listing) : listing[k] = n

\* C10: at most one asset file is open at any time; each file is opened,
\* read to its end and closed before the next is opened, in discovery
\* order, and a failed read releases the descriptor too.
C10_OneOpenFile ==
    /\ Cardinality(DOMAIN fds) <= 1
    /\ pc \in {"read", "close"} => DOMAIN fds = {idx}
    /\ pc \notin {"read", "close"} => fds = <<>>
    /\ pc = "close" => /\ fds[idx].pos = Len(fds[idx].content)
                       /\ h = Flatten(fds[idx].content)
    /\ \A i \in 1..Len(opened) : \E k \in 1..Len(listing) : listing[k] = opened[i]
    /\ \A i, j \in 1..Len(opened) :
          i < j => ListingIndex(opened[i]) < ListingIndex(opened[j])
    /\ \A i \in 1..Len(packs) : packs[i].fileName = opened[i]

C10_Witness ==
    /\ pc = "done" /\ error = "UnreadableFile"
    /\ Len(opened) = 2 /\ Len(packs) = 1
    /\ h # <<>>
    /\ fds = <<>>

====
